---- MODULE Spec2Model ----
(***************************************************************************)
(* The in-memory vector store (MemoryVectorStore) and the semantic cache   *)
(* built on it (MemorySemanticVectorStore) of langchain/src/vectorstores/  *)
(* memory.ts.                                                              *)
(*                                                                         *)
(* Scores are fixed-point hundredths (100 is a similarity of 1.0, 20 is    *)
(* the default threshold 0.2).  The embeddings used are integer vectors of *)
(* integer norm, so every cosine is an exact number of hundredths.         *)
(* Sequences are 1-based here and 0-based in the code.                     *)
(***************************************************************************)
EXTENDS Integers, Sequences, FiniteSets, TLC

\* ------------------------------------------------------------------ bounds

\* Concurrent callers of the cache.
MaxTasks == 2
\* Calls started in one behaviour of the cache.
MaxCalls == 4
\* MemoryVectorStore instances the cache creates in one behaviour.
MaxStores == 3
\* Records in one namespace store.
MaxRecs == 2
\* Calls the sequential caller makes in one behaviour.
MaxSeqCalls == 3
\* Records in the stand-alone store that is searched directly.
MaxVecs == 3
\* Largest k passed to a direct search.
MaxKArg == 4

\* Calls, and records of the stand-alone store, of the caller that uses
\* both a store and a cache.
MaxReadCalls == 3
MaxReadVecs == 2

\* --------------------------------------------------------------- constants

\* scoreThreshold = 0.2 (default of the constructor), in hundredths.
DefaultScoreThreshold == 20
\* maxK: 1 in getLlmCache's scoreThresholdOptions.
MaxK == 1

Min(a, b) == IF a < b THEN a ELSE b

Range(f) == {f[x] : x \in DOMAIN f}

\* ------------------------------------------------------------- similarity

RECURSIVE Dot(_, _)
Dot(a, b) == IF a = <<>> \/ b = <<>> THEN 0
             ELSE Head(a) * Head(b) + Dot(Tail(a), Tail(b))

\* Math.sqrt on the perfect squares the model's vectors produce.
ISqrt(n) == CHOOSE r \in 0..n : r * r <= n /\ (r + 1) * (r + 1) > n

\* ml-distance similarity.cosine: p / (sqrt(p2) * sqrt(q2)), in hundredths.
Cosine(a, b) == (Dot(a, b) * 100) \div (ISqrt(Dot(a, a)) * ISqrt(Dot(b, b)))

\* The similarity functions a store can be constructed with.
SimilarityNames == {"cosine", "dot"}

\* this.similarity(query, vector.embedding)
Similarity(name, a, b) == IF name = "cosine" THEN Cosine(a, b) ELSE Dot(a, b)

\* similarity ?? ml_distance_similarity.cosine: no similarity argument given.
DefaultSimilarity == "cosine"

\* ------------------------------------------------------------------- sort

\* Mutants of the comparator: one that ranks the lower similarity first, one
\* that ranks a record before the records it ties with.
ComparatorAscending(a, b) == IF a.similarity < b.similarity THEN -1 ELSE 0

ComparatorTiesFirst(a, b) == IF a.similarity >= b.similarity THEN -1 ELSE 0

\* (a, b) => (a.similarity > b.similarity ? -1 : 0)
Comparator(a, b) == IF a.similarity > b.similarity THEN -1 ELSE 0

\* Array.prototype.sort as Node's engine runs it on an array shorter than 64
\* elements: one run is counted (and reversed when strictly descending by
\* the comparator), then the rest is placed by binary insertion.  The
\* comparator is consulted only through the sign test "order < 0".
RECURSIVE RunEnd(_, _, _)
RunEnd(arr, isDescending, idx) ==
  IF idx > Len(arr) THEN idx - 1
  ELSE LET order == Comparator(arr[idx], arr[idx - 1])
       IN IF isDescending
          THEN (IF order >= 0 THEN idx - 1 ELSE RunEnd(arr, isDescending, idx + 1))
          ELSE (IF order < 0 THEN idx - 1 ELSE RunEnd(arr, isDescending, idx + 1))

ReverseRange(arr, n) ==
  [i \in 1..Len(arr) |-> IF i <= n THEN arr[n + 1 - i] ELSE arr[i]]

RECURSIVE BinarySearch(_, _, _, _)
BinarySearch(arr, pivot, left, right) ==
  IF left >= right THEN left
  ELSE LET mid == left + ((right - left) \div 2)
       IN IF Comparator(pivot, arr[mid]) < 0
          THEN BinarySearch(arr, pivot, left, mid)
          ELSE BinarySearch(arr, pivot, mid + 1, right)

\* The element at `from` moved to `to` (to <= from), the ones between shifted.
MoveTo(arr, from, to) ==
  [i \in 1..Len(arr) |->
     IF i < to \/ i > from THEN arr[i]
     ELSE IF i = to THEN arr[from] ELSE arr[i - 1]]

RECURSIVE BinaryInsertionSort(_, _)
BinaryInsertionSort(arr, start) ==
  IF start > Len(arr) THEN arr
  ELSE BinaryInsertionSort(
         MoveTo(arr, start, BinarySearch(arr, arr[start], 1, start)), start + 1)

ArraySort(arr) ==
  IF Len(arr) < 2 THEN arr
  ELSE LET isDescending == Comparator(arr[2], arr[1]) < 0
           run == RunEnd(arr, isDescending, 3)
           made == IF isDescending THEN ReverseRange(arr, run) ELSE arr
       IN BinaryInsertionSort(made, run + 1)

\* ----------------------------------------------------------------- search

\* new Document({ metadata, pageContent })
Document(pageContent, metadata) ==
  [pageContent |-> pageContent, metadata |-> metadata]

\* The predicates a caller passes as `filter` (a name stands for a function
\* of the document view, content and metadata, never of the embedding).
Filters == {"none", "tagged"}

ApplyFilter(filter, doc) ==
  IF filter = "tagged" THEN doc.metadata.tag = 1 ELSE TRUE

\* filterFunction of similaritySearchVectorWithScore.
FilterFunction(filter, memoryVector) ==
  IF filter = "none" THEN TRUE
  ELSE ApplyFilter(filter, Document(memoryVector.content, memoryVector.metadata))

FilteredMemoryVectors(memoryVectors, filter) ==
  LET Keep(mv) == FilterFunction(filter, mv)
  IN SelectSeq(memoryVectors, Keep)

\* Mutant of the search: slice(0, k + 1).
SearchesSliceOffByOne(store, query, k, filter) ==
  LET filtered == FilteredMemoryVectors(store.memoryVectors, filter)
      scored == [i \in 1..Len(filtered) |->
                  [similarity |-> Similarity(store.similarity, query,
                                             filtered[i].embedding),
                   index |-> i]]
      sorted == ArraySort(scored)
  IN SubSeq(sorted, 1, Min(k + 1, Len(sorted)))

\* .map((vector, index) => ({similarity, index})).sort(...).slice(0, k)
Searches(store, query, k, filter) ==
  LET filtered == FilteredMemoryVectors(store.memoryVectors, filter)
      scored == [i \in 1..Len(filtered) |->
                  [similarity |-> Similarity(store.similarity, query,
                                             filtered[i].embedding),
                   index |-> i]]
      sorted == ArraySort(scored)
  IN SubSeq(sorted, 1, Min(k, Len(sorted)))

\* Mutant of the search: the documents are taken from the unfiltered
\* records at the positions found among the filtered ones.
SimilaritySearchVectorWithScoreUnfiltered(store, query, k, filter) ==
  LET searches == Searches(store, query, k, filter)
  IN [i \in 1..Len(searches) |->
        <<Document(store.memoryVectors[searches[i].index].content,
                   store.memoryVectors[searches[i].index].metadata),
          searches[i].similarity>>]

\* MemoryVectorStore.similaritySearchVectorWithScore: [Document, score] pairs.
SimilaritySearchVectorWithScore(store, query, k, filter) ==
  LET filtered == FilteredMemoryVectors(store.memoryVectors, filter)
      searches == Searches(store, query, k, filter)
  IN [i \in 1..Len(searches) |->
        <<Document(filtered[searches[i].index].content,
                   filtered[searches[i].index].metadata),
          searches[i].similarity>>]

\* Mutant of addVectors: the new records are put before the old ones.
AddVectorsPrepend(memoryVectors, vectors, documents) ==
  [idx \in 1..Len(vectors) |->
     [content |-> documents[idx].pageContent,
      embedding |-> vectors[idx],
      metadata |-> documents[idx].metadata]] \o memoryVectors

\* MemoryVectorStore.addVectors: one MemoryVector per (vector, document) pair,
\* concatenated after the ones already there.
AddVectors(memoryVectors, vectors, documents) ==
  memoryVectors \o [idx \in 1..Len(vectors) |->
                      [content |-> documents[idx].pageContent,
                       embedding |-> vectors[idx],
                       metadata |-> documents[idx].metadata]]

\* ------------------------------------------------ generations and payload

\* A Generation: its text (<<s>> for the string s, <<>> when the text is
\* missing or not a string) and its other fields (generationInfo).
GenX == [text |-> <<"X">>, generationInfo |-> <<>>]
GenY == [text |-> <<"Y">>, generationInfo |-> <<"info">>]
GenZ == [text |-> <<"Z">>, generationInfo |-> <<>>]
GenNoText == [text |-> <<>>, generationInfo |-> <<>>]

\* The values callers pass to update.
ReturnVals == {<<GenX>>, <<GenY, GenZ>>, <<GenX, GenNoText>>, <<>>}

\* Mutant of dumpGenerationsToJson: the generations are serialized whole.
DumpGenerationsToJsonWhole(generations) ==
  [valid |-> TRUE,
   items |-> [i \in 1..Len(generations) |->
                [text |-> generations[i].text,
                 generationInfo |-> generations[i].generationInfo]]]

\* dumpGenerationsToJson: JSON.stringify of the generations mapped to
\* {text}.  The JSON text is kept as its parse tree: an array of objects
\* that hold the key "text" only, and not even that one when the text is
\* undefined (JSON.stringify drops it).
DumpGenerationsToJson(generations) ==
  [valid |-> TRUE,
   items |-> [i \in 1..Len(generations) |-> [text |-> generations[i].text]]]

\* Mutant of loadGenerationsFromJson: an element whose text is not a string
\* is skipped instead of thrown on.
LoadGenerationsFromJsonSkipping(generationsJson) ==
  IF ~generationsJson.valid
  THEN [ok |-> FALSE, generations |-> <<>>]
  ELSE LET HasText(item) == item.text # <<>>
           items == SelectSeq(generationsJson.items, HasText)
       IN [ok |-> TRUE,
           generations |-> [i \in 1..Len(items) |->
                              [text |-> items[i].text,
                               generationInfo |-> <<>>]]]

\* loadGenerationsFromJson: ok with the chunks, or the decoding error (the
\* JSON does not parse, or an element's text is not a string).
LoadGenerationsFromJson(generationsJson) ==
  IF ~generationsJson.valid
     \/ \E i \in 1..Len(generationsJson.items) : generationsJson.items[i].text = <<>>
  THEN [ok |-> FALSE, generations |-> <<>>]
  ELSE [ok |-> TRUE,
        generations |-> [i \in 1..Len(generationsJson.items) |->
                           [text |-> generationsJson.items[i].text,
                            generationInfo |->
                              IF "generationInfo" \in DOMAIN generationsJson.items[i]
                              THEN generationsJson.items[i].generationInfo
                              ELSE <<>>]]]

\* ------------------------------------------------------ external collaborators

\* Namespace keys, prompts, and the embedding the provider computes for a
\* prompt: p1.p2 = 0.8, p2.p3 = 0.6, p1.p3 = 0.
Keys == {"kA", "kB"}
Prompts == {"p1", "p2", "p3"}

Embed(text) ==
  CASE text = "p1" -> <<5, 0>>
    [] text = "p2" -> <<4, 3>>
    [] OTHER -> <<0, 5>>

\* hash(input): md5 as hex, no two of the model's keys colliding.
Hash(input) == IF input = "kA" THEN "0a" ELSE "0b"

\* Mutant of indexName: one index name for every key.
IndexNameShared(llmKey) == <<"cache:", Hash("kA")>>

\* indexName(llmKey): `cache:${hashedIndex}`
IndexName(llmKey) == <<"cache:", Hash(llmKey)>>

\* ScoreThresholdRetriever.fromVectorStore(store, {minSimilarityScore, maxK})
FromVectorStore(vectorStore, minSimilarityScore, maxK) ==
  [vectorStore |-> vectorStore,
   minSimilarityScore |-> minSimilarityScore,
   maxK |-> maxK]

NoRetriever == FromVectorStore(0, 0, 0)

\* ScoreThresholdRetriever.getRelevantDocuments once the query is embedded:
\* the search with k = maxK, then the results below minSimilarityScore
\* filtered out.
GetRelevantDocuments(retriever, store, queryEmbedding) ==
  LET found == SimilaritySearchVectorWithScore(store, queryEmbedding,
                                               retriever.maxK, "none")
      Passes(pair) == pair[2] >= retriever.minSimilarityScore
      kept == SelectSeq(found, Passes)
  IN [i \in 1..Len(kept) |-> kept[i][1]]

\* ------------------------------------------------------------------ state

VARIABLES
  scoreThreshold,  \* MemorySemanticVectorStore.scoreThreshold
  similarity,      \* MemorySemanticVectorStore.similarity (inherited field)
  cacheDict,       \* MemorySemanticVectorStore.cacheDict: index name -> store
  stores,          \* the MemoryVectorStore instances created, by identity
  pc,              \* where each caller's call stands
  call,            \* each caller's call in progress and its arguments
  llmCache,        \* the retriever getLlmCache returned to the call
  microtasks,      \* callers whose await continuation is queued, in order
  calls,           \* calls started so far
  returned,        \* the call that completed last, and what it returned
  hist,            \* history, per key: what happened to the namespace
  clean,           \* history, per lookup in progress: see NoClean
  prev,            \* history of the sequential caller: the call before `returned`
  since,           \* history of the sequential caller: see SeqHistory
  vs,              \* a stand-alone MemoryVectorStore searched directly
  searched         \* the last direct search: its arguments and its result

cacheVars == <<scoreThreshold, similarity, cacheDict, stores, pc, call, llmCache,
               microtasks, calls, returned, hist, clean>>
seqVars == <<prev, since>>
searchVars == <<vs, searched>>
vars == <<cacheVars, seqVars, searchVars>>

Tasks == 1..MaxTasks

NoCall == [op |-> "none", prompt |-> "", llmKey |-> "", returnVal |-> <<>>]

\* Per lookup: afterClear of its key as it started, and absent: it started
\* with the key not in cacheDict and no update on the key in progress.  Both
\* are withdrawn when an update on the key starts before the lookup ends.
\* fence is the key's fence (NoHist) as the lookup started, and store the
\* store the lookup searched.
NoClean == [after |-> "no", absent |-> FALSE, fence |-> 0, store |-> 0]

\* What a completed call hands back: kind is void (update, clear), null or
\* generations (lookup), or the error thrown; results are the documents the
\* retriever gave lookup; clean and orphan are history (NoClean,
\* FinishUpdate).
Returned(c, kind, generations, results, wasClean, wasOrphan) ==
  [call |-> c, kind |-> kind, generations |-> generations,
   results |-> results, clean |-> wasClean, orphan |-> wasOrphan]

NoReturn == Returned(NoCall, "none", <<>>, <<>>, NoClean, FALSE)

\* new MemoryVectorStore(embeddings): fromExistingIndex(this.embeddings)
\* passes no dbConfig, so the store scores with the default similarity.
FromExistingIndex == [memoryVectors |-> <<>>, similarity |-> DefaultSimilarity]

\* Per key: updates started, updates completed, and those of them that
\* were orphans (FinishUpdate); whether a clear was ever started; the
\* records the last clear dropped; whether two updates ever overlapped; and
\* afterClear: "quiet" when a clear has completed with no update on the key
\* in progress and none has started since, "busy" when one was in progress
\* as the clear completed, "no" otherwise; fence: the number of stores that
\* had been created when the last clear of the key completed.
NoHist == [started |-> 0, done |-> 0, lost |-> 0, cleared |-> FALSE,
           dropped |-> 0, overlapped |-> FALSE, afterClear |-> "no",
           fence |-> 0]

NoPrev == [call |-> NoCall, kind |-> "none"]

NoSearch == [query |-> <<>>, k |-> 0, filter |-> "none", out |-> <<>>,
             indices |-> <<>>]

InitWith(thresholds, cacheSimilarities, similarities) ==
  /\ scoreThreshold \in thresholds
  /\ similarity \in cacheSimilarities
  /\ cacheDict = [i \in {} |-> 0]
  /\ stores = <<>>
  /\ pc = [t \in Tasks |-> "idle"]
  /\ call = [t \in Tasks |-> NoCall]
  /\ llmCache = [t \in Tasks |-> NoRetriever]
  /\ microtasks = <<>>
  /\ calls = 0
  /\ returned = NoReturn
  /\ hist = [k \in Keys |-> NoHist]
  /\ clean = [t \in Tasks |-> NoClean]
  /\ prev = NoPrev
  /\ since = [k \in Keys |-> {}]
  /\ vs \in [memoryVectors : {<<>>}, similarity : similarities]
  /\ searched = NoSearch

\* ------------------------------------------------------- history bookkeeping

UpdateInFlight(llmKey, except) ==
  \E u \in Tasks \ {except} :
    pc[u] # "idle" /\ call[u].op = "update" /\ call[u].llmKey = llmKey

Call(op, prompt, llmKey, returnVal) ==
  [op |-> op, prompt |-> prompt, llmKey |-> llmKey, returnVal |-> returnVal]

\* A call starts on caller t.
Begin(t) ==
  /\ pc[t] = "idle"
  /\ calls < MaxCalls
  /\ calls' = calls + 1

\* Caller t's call completes.
End(t) ==
  /\ pc' = [pc EXCEPT ![t] = "idle"]
  /\ call' = [call EXCEPT ![t] = NoCall]
  /\ llmCache' = [llmCache EXCEPT ![t] = NoRetriever]
  /\ clean' = [clean EXCEPT ![t] = NoClean]

\* ------------------------------------------------------------ getLlmCache

\* getLlmCache up to its return or its await: the namespace's store wrapped
\* in a retriever when the index name is in cacheDict, else the caller waits
\* for fromExistingIndex (next: where the caller goes on once it has the
\* retriever).
GetLlmCache(t, llmKey, next) ==
  IF IndexName(llmKey) \in DOMAIN cacheDict
  THEN /\ llmCache' = [llmCache EXCEPT ![t] =
                         FromVectorStore(cacheDict[IndexName(llmKey)],
                                         scoreThreshold, MaxK)]
       /\ pc' = [pc EXCEPT ![t] = next]
       /\ UNCHANGED microtasks
  ELSE /\ Len(stores) + Len(microtasks) < MaxStores
       /\ llmCache' = [llmCache EXCEPT ![t] = NoRetriever]
       /\ pc' = [pc EXCEPT ![t] = "getLlmCache"]
       /\ microtasks' = Append(microtasks, t)

\* Mutant of the resumption: the new store is handed to the retriever but
\* not put under the index name.
ResumeGetLlmCacheUnregistered(t) ==
  /\ pc[t] = "getLlmCache"
  /\ microtasks # <<>> /\ Head(microtasks) = t
  /\ microtasks' = Tail(microtasks)
  /\ stores' = Append(stores, FromExistingIndex)
  /\ llmCache' = [llmCache EXCEPT ![t] =
                    FromVectorStore(Len(stores) + 1, scoreThreshold, MaxK)]
  /\ pc' = [pc EXCEPT ![t] = IF call[t].op = "lookup" THEN "embedQuery"
                             ELSE "embedDocuments"]
  /\ UNCHANGED <<scoreThreshold, similarity, cacheDict, call, calls, returned, hist, clean>>
  /\ UNCHANGED searchVars

\* Mutant of the resumption: the first store ever created is put under the
\* index name again instead of a new one.
ResumeGetLlmCacheReuses(t) ==
  /\ pc[t] = "getLlmCache"
  /\ microtasks # <<>> /\ Head(microtasks) = t
  /\ microtasks' = Tail(microtasks)
  /\ stores' = IF stores = <<>> THEN <<FromExistingIndex>> ELSE stores
  /\ cacheDict' = [i \in DOMAIN cacheDict \cup {IndexName(call[t].llmKey)} |->
                     IF i = IndexName(call[t].llmKey) THEN 1
                     ELSE cacheDict[i]]
  /\ llmCache' = [llmCache EXCEPT ![t] =
                    FromVectorStore(1, scoreThreshold, MaxK)]
  /\ pc' = [pc EXCEPT ![t] = IF call[t].op = "lookup" THEN "embedQuery"
                             ELSE "embedDocuments"]
  /\ UNCHANGED <<scoreThreshold, similarity, call, calls, returned, hist, clean>>
  /\ UNCHANGED searchVars

\* this.cacheDict[indexName] = await MemoryVectorStore.fromExistingIndex(...)
\* and the return of the retriever on this.cacheDict[indexName].
ResumeGetLlmCache(t) ==
  /\ pc[t] = "getLlmCache"
  /\ microtasks # <<>> /\ Head(microtasks) = t
  /\ microtasks' = Tail(microtasks)
  /\ stores' = Append(stores, FromExistingIndex)
  /\ cacheDict' = [i \in DOMAIN cacheDict \cup {IndexName(call[t].llmKey)} |->
                     IF i = IndexName(call[t].llmKey) THEN Len(stores) + 1
                     ELSE cacheDict[i]]
  /\ llmCache' = [llmCache EXCEPT ![t] =
                    FromVectorStore(cacheDict'[IndexName(call[t].llmKey)],
                                    scoreThreshold, MaxK)]
  /\ pc' = [pc EXCEPT ![t] = IF call[t].op = "lookup" THEN "embedQuery"
                             ELSE "embedDocuments"]
  /\ UNCHANGED <<scoreThreshold, similarity, call, calls, returned, hist, clean>>
  /\ UNCHANGED searchVars

\* ------------------------------------------------------------------ lookup

\* lookup(prompt, llmKey) up to its first suspension.
StartLookup(t, prompt, llmKey) ==
  /\ Begin(t)
  /\ call' = [call EXCEPT ![t] = Call("lookup", prompt, llmKey, <<>>)]
  /\ GetLlmCache(t, llmKey, "embedQuery")
  /\ clean' = [clean EXCEPT ![t] =
       [after |-> hist[llmKey].afterClear,
        absent |-> /\ IndexName(llmKey) \notin DOMAIN cacheDict
                   /\ ~UpdateInFlight(llmKey, t),
        fence |-> hist[llmKey].fence,
        store |-> 0]]
  /\ UNCHANGED <<scoreThreshold, similarity, cacheDict, stores, returned, hist>>
  /\ UNCHANGED searchVars

\* The body of lookup after `results`: the payload of every document decoded
\* and concatenated; the first decoding error is thrown.
RECURSIVE Decode(_)
Decode(results) ==
  IF results = <<>> THEN [ok |-> TRUE, generations |-> <<>>]
  ELSE LET first == LoadGenerationsFromJson(Head(results).metadata.return_val)
           rest == Decode(Tail(results))
       IN IF first.ok /\ rest.ok
          THEN [ok |-> TRUE, generations |-> first.generations \o rest.generations]
          ELSE [ok |-> FALSE, generations |-> <<>>]

\* Mutant of the end of lookup: the concatenation is returned even when it
\* is empty.
LookupOutcomeEmptyList(results) ==
  LET decoded == Decode(results)
  IN IF ~decoded.ok THEN [kind |-> "decodeError", generations |-> <<>>]
     ELSE [kind |-> "generations", generations |-> decoded.generations]

\* What lookup returns or throws for the documents retrieved.
LookupOutcome(results) ==
  LET decoded == Decode(results)
  IN IF ~decoded.ok THEN [kind |-> "decodeError", generations |-> <<>>]
     ELSE IF Len(decoded.generations) > 0
          THEN [kind |-> "generations", generations |-> decoded.generations]
          ELSE [kind |-> "null", generations |-> <<>>]

\* The query's embedding arrives: the search, the threshold and the decoding
\* run to the end of lookup without suspending.
FinishLookup(t) ==
  /\ pc[t] = "embedQuery"
  /\ LET results == GetRelevantDocuments(llmCache[t],
                                         stores[llmCache[t].vectorStore],
                                         Embed(call[t].prompt))
         outcome == LookupOutcome(results)
     IN returned' = Returned(call[t], outcome.kind, outcome.generations,
                             results,
                             [clean[t] EXCEPT !.store = llmCache[t].vectorStore],
                             FALSE)
  /\ End(t)
  /\ UNCHANGED <<scoreThreshold, similarity, cacheDict, stores, microtasks, calls, hist>>
  /\ UNCHANGED searchVars

\* Mutant of the failure: a failing update leaves a record without
\* embedding behind.
FailEmbeddingPartial(t) ==
  /\ pc[t] \in {"embedQuery", "embedDocuments"}
  /\ returned' = Returned(call[t], "embedError", <<>>, <<>>, clean[t], FALSE)
  /\ stores' = IF call[t].op = "update"
               THEN [stores EXCEPT ![llmCache[t].vectorStore].memoryVectors =
                       Append(@, [content |-> call[t].prompt,
                                  embedding |-> <<>>,
                                  metadata |-> [llm_string |-> call[t].llmKey]])]
               ELSE stores
  /\ End(t)
  /\ UNCHANGED <<scoreThreshold, similarity, cacheDict, microtasks, calls, hist>>
  /\ UNCHANGED searchVars

\* The embedding provider fails: lookup or update throws its error.
FailEmbedding(t) ==
  /\ pc[t] \in {"embedQuery", "embedDocuments"}
  /\ returned' = Returned(call[t], "embedError", <<>>, <<>>, clean[t], FALSE)
  /\ End(t)
  /\ UNCHANGED <<scoreThreshold, similarity, cacheDict, stores, microtasks, calls, hist>>
  /\ UNCHANGED searchVars

\* ------------------------------------------------------------------ update

\* update(prompt, llmKey, returnVal) up to its first suspension.
StartUpdate(t, prompt, llmKey, returnVal) ==
  /\ Begin(t)
  /\ call' = [call EXCEPT ![t] = Call("update", prompt, llmKey, returnVal)]
  /\ GetLlmCache(t, llmKey, "embedDocuments")
  /\ hist' = [hist EXCEPT ![llmKey] =
       [@ EXCEPT !.started = @ + 1, !.afterClear = "no",
                 !.overlapped = @ \/ UpdateInFlight(llmKey, t)]]
  /\ clean' = [u \in Tasks |->
                 IF call[u].op = "lookup" /\ call[u].llmKey = llmKey
                 THEN [clean[u] EXCEPT !.after = "no", !.absent = FALSE]
                 ELSE clean[u]]
  /\ UNCHANGED <<scoreThreshold, similarity, cacheDict, stores, returned>>
  /\ UNCHANGED searchVars

\* The document update builds: the prompt, with the key, the prompt and the
\* serialized value as metadata.
UpdateDocument(prompt, llmKey, returnVal) ==
  Document(prompt, [llm_string |-> llmKey,
                    prompt |-> prompt,
                    return_val |-> DumpGenerationsToJson(returnVal)])

\* History: the update of caller t is an orphan when the store its retriever
\* was built on is not the one cacheDict holds for the key as it appends.
Orphan(t) ==
  \/ IndexName(call[t].llmKey) \notin DOMAIN cacheDict
  \/ cacheDict[IndexName(call[t].llmKey)] # llmCache[t].vectorStore

\* Mutant of the end of update: an update whose store is no longer the
\* key's throws instead of appending.
FinishUpdateChecked(t) ==
  /\ pc[t] = "embedDocuments"
  /\ Len(stores[llmCache[t].vectorStore].memoryVectors) < MaxRecs
  /\ stores' = IF Orphan(t) THEN stores
               ELSE [stores EXCEPT ![llmCache[t].vectorStore].memoryVectors =
                      AddVectors(@, <<Embed(call[t].prompt)>>,
                                 <<UpdateDocument(call[t].prompt, call[t].llmKey,
                                                  call[t].returnVal)>>)]
  /\ returned' = Returned(call[t], IF Orphan(t) THEN "staleError" ELSE "void",
                          <<>>, <<>>, NoClean, Orphan(t))
  /\ End(t)
  /\ hist' = [hist EXCEPT ![call[t].llmKey] =
       [@ EXCEPT !.done = @ + 1,
                 !.lost = IF Orphan(t) THEN @ + 1 ELSE @]]
  /\ UNCHANGED <<scoreThreshold, similarity, cacheDict, microtasks, calls>>
  /\ UNCHANGED searchVars

\* The prompt's embedding arrives: addVectors appends the record to the
\* store the retriever was built on.
FinishUpdate(t) ==
  /\ pc[t] = "embedDocuments"
  /\ Len(stores[llmCache[t].vectorStore].memoryVectors) < MaxRecs
  /\ stores' = [stores EXCEPT ![llmCache[t].vectorStore].memoryVectors =
       AddVectors(@, <<Embed(call[t].prompt)>>,
                  <<UpdateDocument(call[t].prompt, call[t].llmKey,
                                   call[t].returnVal)>>)]
  /\ returned' = Returned(call[t], "void", <<>>, <<>>, NoClean,
                          Orphan(t))
  /\ End(t)
  /\ hist' = [hist EXCEPT ![call[t].llmKey] =
       [@ EXCEPT !.done = @ + 1,
                 !.lost = IF Orphan(t) THEN @ + 1 ELSE @]]
  /\ UNCHANGED <<scoreThreshold, similarity, cacheDict, microtasks, calls>>
  /\ UNCHANGED searchVars

\* ------------------------------------------------------------------- clear

\* Mutant of clear: dropIndex is run on every store.
StartClearAll(t, llmKey) ==
  /\ Begin(t)
  /\ IF IndexName(llmKey) \in DOMAIN cacheDict
     THEN /\ stores' = [s \in 1..Len(stores) |->
                          [stores[s] EXCEPT !.memoryVectors = <<>>]]
          /\ pc' = [pc EXCEPT ![t] = "dropIndex"]
          /\ microtasks' = Append(microtasks, t)
          /\ call' = [call EXCEPT ![t] = Call("clear", "", llmKey, <<>>)]
          /\ hist' = [hist EXCEPT ![llmKey] =
               [@ EXCEPT !.cleared = TRUE,
                         !.dropped = Len(stores[cacheDict[IndexName(llmKey)]]
                                           .memoryVectors)]]
          /\ UNCHANGED <<returned, llmCache, clean>>
     ELSE /\ returned' = Returned(Call("clear", "", llmKey, <<>>), "void",
                                  <<>>, <<>>, NoClean, FALSE)
          /\ hist' = [hist EXCEPT ![llmKey] =
               [@ EXCEPT !.cleared = TRUE, !.dropped = 0,
                         !.fence = Len(stores),
                         !.afterClear = IF UpdateInFlight(llmKey, t)
                                        THEN "busy" ELSE "quiet"]]
          /\ UNCHANGED <<stores, microtasks, pc, call, llmCache, clean>>
  /\ UNCHANGED <<scoreThreshold, similarity, cacheDict>>
  /\ UNCHANGED searchVars

\* clear(llmKey) up to its suspension: dropIndex empties the store at once
\* and clear awaits it; on an absent namespace clear returns.
StartClear(t, llmKey) ==
  /\ Begin(t)
  /\ IF IndexName(llmKey) \in DOMAIN cacheDict
     THEN /\ stores' = [stores EXCEPT
                          ![cacheDict[IndexName(llmKey)]].memoryVectors = <<>>]
          /\ pc' = [pc EXCEPT ![t] = "dropIndex"]
          /\ microtasks' = Append(microtasks, t)
          /\ call' = [call EXCEPT ![t] = Call("clear", "", llmKey, <<>>)]
          /\ hist' = [hist EXCEPT ![llmKey] =
               [@ EXCEPT !.cleared = TRUE,
                         !.dropped = Len(stores[cacheDict[IndexName(llmKey)]]
                                           .memoryVectors)]]
          /\ UNCHANGED <<returned, llmCache, clean>>
     ELSE /\ returned' = Returned(Call("clear", "", llmKey, <<>>), "void",
                                  <<>>, <<>>, NoClean, FALSE)
          /\ hist' = [hist EXCEPT ![llmKey] =
               [@ EXCEPT !.cleared = TRUE, !.dropped = 0,
                         !.fence = Len(stores),
                         !.afterClear = IF UpdateInFlight(llmKey, t)
                                        THEN "busy" ELSE "quiet"]]
          /\ UNCHANGED <<stores, microtasks, pc, call, llmCache, clean>>
  /\ UNCHANGED <<scoreThreshold, similarity, cacheDict>>
  /\ UNCHANGED searchVars

\* Mutant of the end of clear: the index name stays in cacheDict.
ResumeClearKeeps(t) ==
  /\ pc[t] = "dropIndex"
  /\ microtasks # <<>> /\ Head(microtasks) = t
  /\ microtasks' = Tail(microtasks)
  /\ returned' = Returned(call[t], "void", <<>>, <<>>, NoClean, FALSE)
  /\ End(t)
  /\ hist' = [hist EXCEPT ![call[t].llmKey] =
       [@ EXCEPT !.fence = Len(stores),
                 !.afterClear = IF UpdateInFlight(call[t].llmKey, t)
                                THEN "busy" ELSE "quiet"]]
  /\ UNCHANGED <<scoreThreshold, similarity, cacheDict, stores, calls>>
  /\ UNCHANGED searchVars

\* delete this.cacheDict[indexName], once dropIndex has been awaited.
ResumeClear(t) ==
  /\ pc[t] = "dropIndex"
  /\ microtasks # <<>> /\ Head(microtasks) = t
  /\ microtasks' = Tail(microtasks)
  /\ cacheDict' = [i \in DOMAIN cacheDict \ {IndexName(call[t].llmKey)} |->
                     cacheDict[i]]
  /\ returned' = Returned(call[t], "void", <<>>, <<>>, NoClean, FALSE)
  /\ End(t)
  /\ hist' = [hist EXCEPT ![call[t].llmKey] =
       [@ EXCEPT !.fence = Len(stores),
                 !.afterClear = IF UpdateInFlight(call[t].llmKey, t)
                                THEN "busy" ELSE "quiet"]]
  /\ UNCHANGED <<scoreThreshold, similarity, stores, calls>>
  /\ UNCHANGED searchVars

\* ------------------------------------------------------------ direct search

\* The records added to the stand-alone store and the queries put to it:
\* for the query <<5, 0>> the three embeddings score 1.0, 0.8 and 0.6.
SearchEmbeddings == {<<5, 0>>, <<4, 3>>, <<3, 4>>}
SearchQueries == {<<5, 0>>, <<3, 4>>}
SearchDocuments ==
  {Document("a", [tag |-> 1]), Document("b", [tag |-> 1]),
   Document("a", [tag |-> 2])}

\* MemoryVectorStore.addVectors on the stand-alone store.
VsAddVectors(vectors, documents) ==
  /\ Len(vs.memoryVectors) + Len(vectors) <= MaxVecs
  /\ vs' = [vs EXCEPT !.memoryVectors = AddVectors(@, vectors, documents)]
  /\ searched' = NoSearch
  /\ UNCHANGED <<cacheVars, seqVars>>

\* Mutant of the direct search: the store's records are left in reverse
\* order.
VsSearchReorders(query, k, filter) ==
  /\ searched' =
       [query |-> query, k |-> k, filter |-> filter,
        out |-> SimilaritySearchVectorWithScore(vs, query, k, filter),
        indices |-> LET searches == Searches(vs, query, k, filter)
                    IN [i \in 1..Len(searches) |-> searches[i].index]]
  /\ vs' = [vs EXCEPT !.memoryVectors =
             [i \in 1..Len(@) |-> @[Len(@) + 1 - i]]]
  /\ UNCHANGED <<cacheVars, seqVars>>

\* MemoryVectorStore.similaritySearchVectorWithScore on the stand-alone store.
\* History: the search is remembered until the store changes, with the
\* positions (among the filtered records) of the records it returned.
VsSearch(query, k, filter) ==
  /\ searched' =
       [query |-> query, k |-> k, filter |-> filter,
        out |-> SimilaritySearchVectorWithScore(vs, query, k, filter),
        indices |-> LET searches == Searches(vs, query, k, filter)
                    IN [i \in 1..Len(searches) |-> searches[i].index]]
  /\ UNCHANGED <<vs, cacheVars, seqVars>>

\* ---------------------------------------------------------- specifications

\* The inputs of the concurrent callers.
ConcKeys == {"kA"}
ConcPrompts == {"p1", "p2"}
ConcReturnVals == {<<GenX>>, <<GenY>>}

Init == InitWith({DefaultScoreThreshold}, {DefaultSimilarity},
                 {DefaultSimilarity})

\* The cache under concurrent callers: calls interleave at their awaits.
Next ==
  \/ \E t \in Tasks, p \in ConcPrompts, k \in ConcKeys :
       StartLookup(t, p, k) /\ UNCHANGED seqVars
  \/ \E t \in Tasks, p \in ConcPrompts, k \in ConcKeys, v \in ConcReturnVals :
       StartUpdate(t, p, k, v) /\ UNCHANGED seqVars
  \/ \E t \in Tasks, k \in ConcKeys : StartClear(t, k) /\ UNCHANGED seqVars
  \/ \E t \in Tasks : ResumeGetLlmCache(t) /\ UNCHANGED seqVars
  \/ \E t \in Tasks : FinishLookup(t) /\ UNCHANGED seqVars
  \/ \E t \in Tasks : FinishUpdate(t) /\ UNCHANGED seqVars
  \/ \E t \in Tasks : FailEmbedding(t) /\ UNCHANGED seqVars
  \/ \E t \in Tasks : ResumeClear(t) /\ UNCHANGED seqVars

Spec == Init /\ [][Next]_vars

\* History of the sequential caller: when its call completes, the call that
\* completed before it, and per key the kinds of call (update, lookup)
\* completed on the key since the key's last clear.
SeqHistory ==
  LET completed == pc'[1] = "idle" /\ (pc[1] # "idle" \/ calls' # calls)
  IN /\ prev' = IF completed
                THEN [call |-> returned.call, kind |-> returned.kind]
                ELSE prev
     /\ since' = [k \in Keys |->
          IF completed /\ returned'.call.llmKey = k
          THEN (IF returned'.call.op = "clear" THEN {}
                ELSE since[k] \cup {returned'.call.op})
          ELSE since[k]]

SeqInit == InitWith({DefaultScoreThreshold, 80}, {DefaultSimilarity},
                    {DefaultSimilarity})

\* The cache under one caller that awaits each call before the next.
SeqNext ==
  \/ \E p \in Prompts, k \in Keys :
       calls < MaxSeqCalls /\ StartLookup(1, p, k) /\ SeqHistory
  \/ \E p \in Prompts, k \in Keys, v \in ReturnVals :
       calls < MaxSeqCalls /\ StartUpdate(1, p, k, v) /\ SeqHistory
  \/ \E k \in Keys : calls < MaxSeqCalls /\ StartClear(1, k) /\ SeqHistory
  \/ ResumeGetLlmCache(1) /\ SeqHistory
  \/ FinishLookup(1) /\ SeqHistory
  \/ FinishUpdate(1) /\ SeqHistory
  \/ FailEmbedding(1) /\ SeqHistory
  \/ ResumeClear(1) /\ SeqHistory

SeqSpec == SeqInit /\ [][SeqNext]_vars

\* One caller that uses a stand-alone store and a cache, the cache built
\* with either similarity, awaiting each call before the next.
ReadPrompts == {"p1", "p2"}

ReadInit == InitWith({DefaultScoreThreshold}, SimilarityNames,
                     {DefaultSimilarity})

ReadNext ==
  \/ \E p \in ReadPrompts :
       calls < MaxReadCalls /\ StartLookup(1, p, "kA") /\ UNCHANGED seqVars
  \/ \E p \in ReadPrompts :
       calls < MaxReadCalls /\ StartUpdate(1, p, "kA", <<GenX>>)
         /\ UNCHANGED seqVars
  \/ calls < MaxReadCalls /\ StartClear(1, "kA") /\ UNCHANGED seqVars
  \/ ResumeGetLlmCache(1) /\ UNCHANGED seqVars
  \/ FinishLookup(1) /\ UNCHANGED seqVars
  \/ FinishUpdate(1) /\ UNCHANGED seqVars
  \/ FailEmbedding(1) /\ UNCHANGED seqVars
  \/ ResumeClear(1) /\ UNCHANGED seqVars
  \/ \E e \in SearchQueries :
       pc[1] = "idle" /\ Len(vs.memoryVectors) < MaxReadVecs
         /\ VsAddVectors(<<e>>, <<Document("a", [tag |-> 1])>>)
  \/ \E k \in 1..MaxReadVecs : pc[1] = "idle" /\ VsSearch(<<5, 0>>, k, "none")

ReadSpec == ReadInit /\ [][ReadNext]_vars

SearchInit == InitWith({DefaultScoreThreshold}, {DefaultSimilarity},
                       SimilarityNames)

\* A stand-alone MemoryVectorStore: records are added and it is searched.
SearchNext ==
  \/ \E e \in SearchEmbeddings, d \in SearchDocuments :
       VsAddVectors(<<e>>, <<d>>)
  \/ \E e1, e2 \in SearchEmbeddings, d1, d2 \in SearchDocuments :
       VsAddVectors(<<e1, e2>>, <<d1, d2>>)
  \/ \E q \in SearchQueries, k \in 0..MaxKArg, f \in Filters :
       VsSearch(q, k, f)

SearchSpec == SearchInit /\ [][SearchNext]_vars

\* ------------------------------------------------------------------ claims

\* The last direct search, seen from outside: the records the predicate
\* keeps, in insertion order, and the score of each.
SearchedFiltered ==
  LET Keep(mv) == searched.filter = "none"
                  \/ ApplyFilter(searched.filter, Document(mv.content, mv.metadata))
  IN SelectSeq(vs.memoryVectors, Keep)

SearchedScores ==
  [i \in 1..Len(SearchedFiltered) |->
     Similarity(vs.similarity, searched.query, SearchedFiltered[i].embedding)]

DidSearch == searched # NoSearch

\* C5: a search returns exactly min(k, filteredCount) results, for every
\* k >= 0, store and predicate, and their scores are in non-increasing order.
C5_SearchLengthAndOrder ==
  DidSearch =>
    /\ Len(searched.out) = Min(searched.k, Len(SearchedFiltered))
    /\ \A i, j \in 1..Len(searched.out) :
         i < j => searched.out[i][2] >= searched.out[j][2]

\* C5's case: a predicate that removes records, k above the number of the
\* records it keeps, and two results of different scores.
C5_Witness ==
  /\ DidSearch
  /\ searched.filter = "tagged"
  /\ Len(SearchedFiltered) < Len(vs.memoryVectors)
  /\ searched.k > Len(SearchedFiltered)
  /\ Len(searched.out) = 2
  /\ searched.out[1][2] > searched.out[2][2]

\* C6: the ranking is the stable descending sort of the filtered records:
\* each result is a filtered record with its own score, a result comes
\* before another when its score is higher or, the scores being equal, when
\* it was inserted earlier, and a record left out ranks after the last result.
C6_StableDescending ==
  DidSearch =>
    LET n == Len(searched.out)
        at == searched.indices
    IN /\ Len(at) = n
       /\ \A i \in 1..n :
            /\ at[i] \in 1..Len(SearchedFiltered)
            /\ searched.out[i] =
                 <<Document(SearchedFiltered[at[i]].content,
                            SearchedFiltered[at[i]].metadata),
                   SearchedScores[at[i]]>>
       /\ \A i, j \in 1..n :
            i < j => \/ SearchedScores[at[i]] > SearchedScores[at[j]]
                     \/ /\ SearchedScores[at[i]] = SearchedScores[at[j]]
                        /\ at[i] < at[j]
       /\ \A m \in 1..Len(SearchedFiltered) :
            (n > 0 /\ m \notin Range(at)) =>
              \/ SearchedScores[m] < SearchedScores[at[n]]
              \/ /\ SearchedScores[m] = SearchedScores[at[n]]
                 /\ m > at[n]

\* C6's case: records scored 0.6, 0.8, 0.8 in insertion order, k = 1: the
\* second record is returned, not the third.
C6_Witness ==
  /\ DidSearch
  /\ searched.k = 1
  /\ SearchedScores = <<60, 80, 80>>
  /\ searched.indices = <<2>>

\* -------------------------------------------------------- claims on the cache

\* The records of the store cacheDict holds for a key (none when absent).
Present(llmKey) == IndexName(llmKey) \in DOMAIN cacheDict

KeyStore(llmKey) ==
  IF Present(llmKey) THEN stores[cacheDict[IndexName(llmKey)]].memoryVectors
  ELSE <<>>

\* The score of each record of a key's store against a prompt.
KeyScores(llmKey, prompt) ==
  [i \in 1..Len(KeyStore(llmKey)) |->
     Similarity(DefaultSimilarity, Embed(prompt), KeyStore(llmKey)[i].embedding)]

\* The last completed call is a lookup that returned (its embedding call
\* did not fail).
LookupDone == returned.call.op = "lookup" /\ returned.kind # "embedError"

\* The sequential caller is between calls.
SeqIdle == pc[1] = "idle"

Texts(generations) == [i \in 1..Len(generations) |-> generations[i].text]

\* The sequential caller's last two calls: update(prompt, key, [{text: X}])
\* that completed, then lookup(prompt, key) that returned.
UpdateThenLookup ==
  /\ LookupDone
  /\ prev.call.op = "update" /\ prev.kind = "void"
  /\ prev.call.prompt = returned.call.prompt
  /\ prev.call.llmKey = returned.call.llmKey
  /\ Len(prev.call.returnVal) = 1
  /\ prev.call.returnVal[1].text # <<>>
  /\ scoreThreshold < 100

\* C1: from any reachable cache state, with scoreThreshold below 1,
\* update(prompt, key, [{text: X}]) followed immediately by lookup(prompt,
\* key) returns a non-null sequence with an entry whose text is X.
C1_RoundTrip ==
  UpdateThenLookup =>
    /\ returned.kind = "generations"
    /\ \E i \in 1..Len(returned.generations) :
         returned.generations[i].text = prev.call.returnVal[1].text

\* C2, as stated: a lookup started after a clear of its key has completed,
\* with no update on the key started after the clear, returns null.
C2_LookupAfterClear ==
  (LookupDone /\ returned.clean.after \in {"busy", "quiet"})
    => returned.kind = "null"

\* C2, amended: a lookup started after a clear of its key has completed,
\* with no update on the key in progress as the clear completed and none
\* started after it, returns null, whatever the namespace held before.
C2_LookupAfterQuietClear ==
  (LookupDone /\ returned.clean.after = "quiet") => returned.kind = "null"

\* The clear dropped two records that overlapping updates had added to the
\* namespace, and the lookup after it returned null.
C2_Witness ==
  /\ LookupDone /\ returned.clean.after = "quiet"
  /\ returned.kind = "null"
  /\ hist[returned.call.llmKey].dropped = 2
  /\ hist[returned.call.llmKey].overlapped

\* C3: a store holds only records of its own key, a lookup returns only
\* records of its own key, and a lookup on a key no update was ever made on
\* returns null, whatever the other keys hold.
C3_NamespaceIsolation ==
  /\ \A k \in Keys : \A i \in 1..Len(KeyStore(k)) :
       KeyStore(k)[i].metadata.llm_string = k
  /\ returned.call.op = "lookup" =>
       \A i \in 1..Len(returned.results) :
         returned.results[i].metadata.llm_string = returned.call.llmKey
  /\ (LookupDone /\ hist[returned.call.llmKey].started = 0)
       => returned.kind = "null"

C3_Witness ==
  /\ LookupDone /\ returned.kind = "null"
  /\ hist[returned.call.llmKey].started = 0
  /\ \E k \in Keys \ {returned.call.llmKey} :
       \E i \in 1..Len(KeyStore(k)) :
         KeyStore(k)[i].content = returned.call.prompt

\* The first of the records with the highest score.
Best(scores) ==
  CHOOSE i \in 1..Len(scores) :
    \A j \in 1..Len(scores) :
      scores[j] < scores[i] \/ (scores[j] = scores[i] /\ j >= i)

\* C4: lookup(prompt, key) returns the decoded payload of the one record of
\* key's store that scores highest against the prompt (the first of them
\* on a tie) when that score is at least scoreThreshold, and null when the
\* best score is below it or the store is empty.  (The decoded payload is
\* returned when it is a non-empty sequence of texts.)
C4_LookupBestOverThreshold ==
  (SeqIdle /\ LookupDone) =>
    LET mv == KeyStore(returned.call.llmKey)
        scores == KeyScores(returned.call.llmKey, returned.call.prompt)
    IN IF mv = <<>> \/ scores[Best(scores)] < scoreThreshold
       THEN returned.kind = "null" /\ returned.results = <<>>
       ELSE LET best == mv[Best(scores)]
                texts == Texts(best.metadata.return_val.items)
            IN /\ returned.results = <<Document(best.content, best.metadata)>>
               /\ returned.kind = "generations" <=>
                    (texts # <<>> /\ \A i \in 1..Len(texts) : texts[i] # <<>>)
               /\ returned.kind = "generations" =>
                    Texts(returned.generations) = texts

\* A hit on the boundary: the best score equals the threshold, and the
\* store holds a lower-scoring record inserted before the best one.
C4_Witness ==
  /\ SeqIdle /\ LookupDone /\ returned.kind = "generations"
  /\ LET scores == KeyScores(returned.call.llmKey, returned.call.prompt)
     IN /\ Len(scores) = 2
        /\ scores[2] = scoreThreshold
        /\ scores[1] < scores[2]

\* C7, as stated: between calls, a key is in cacheDict exactly when an
\* update on it was made since its last clear.
C7_PresentIffUpdated ==
  SeqIdle => \A k \in Keys : Present(k) <=> "update" \in since[k]

\* C7, amended: between calls, a key is in cacheDict exactly when an update
\* or a lookup on it was made since its last clear.
C7_PresentIffUsed ==
  SeqIdle => \A k \in Keys : Present(k) <=> since[k] # {}

\* A lookup alone made the namespace active, with no record.
C7_Witness ==
  /\ SeqIdle
  /\ \E k \in Keys : Present(k) /\ since[k] = {"lookup"} /\ KeyStore(k) = <<>>

\* Updates started so far, on all keys.
RECURSIVE StartedOn(_)
StartedOn(keys) ==
  IF keys = {} THEN 0
  ELSE LET k == CHOOSE x \in keys : TRUE
       IN hist[k].started + StartedOn(keys \ {k})

\* C8: when the only calls made are updates, and the n updates started on a
\* key have all completed, the store cacheDict holds for the key has
\* exactly n records.
C8_ConcurrentUpdatesAllStored ==
  \A k \in Keys :
    (/\ calls = StartedOn(Keys)
     /\ hist[k].started > 0
     /\ hist[k].done = hist[k].started)
    => Present(k) /\ Len(KeyStore(k)) = hist[k].done

\* The record an update call appends.
RecordOf(c) ==
  [content |-> c.prompt,
   embedding |-> Embed(c.prompt),
   metadata |-> UpdateDocument(c.prompt, c.llmKey, c.returnVal).metadata]

\* Stores no index name of cacheDict leads to.
Unreachable == {s \in 1..Len(stores) : s \notin Range(cacheDict)}

\* C9: an update that appends to a store that is no longer the one of its
\* key completes without error, and its record lies in a store cacheDict
\* does not lead to; a lookup that starts on an absent namespace with no
\* update on the key in progress, and none starting before it ends, returns
\* null.
C9_OrphanedUpdate ==
  /\ (returned.call.op = "update" /\ returned.orphan) =>
       /\ returned.kind = "void"
       /\ \E s \in Unreachable : \E i \in 1..Len(stores[s].memoryVectors) :
            stores[s].memoryVectors[i] = RecordOf(returned.call)
  /\ (LookupDone /\ returned.clean.absent) => returned.kind = "null"

\* The race: the key's one update ran against a clear and completed as an
\* orphan, its record lies in an unreachable store, and the lookup of its
\* prompt made afterwards returned null.
C9_Witness ==
  /\ LookupDone /\ returned.clean.absent /\ returned.kind = "null"
  /\ LET h == hist[returned.call.llmKey]
     IN h.started = 1 /\ h.done = 1 /\ h.lost = 1 /\ h.cleared
  /\ \E s \in Unreachable : \E i \in 1..Len(stores[s].memoryVectors) :
       /\ stores[s].memoryVectors[i].content = returned.call.prompt
       /\ stores[s].memoryVectors[i].metadata.llm_string = returned.call.llmKey

\* The payloads a record may carry, as parse trees: text that is not JSON,
\* or an array of up to two objects, each with a string text or without.
Payloads ==
  [valid : BOOLEAN,
   items : {<<>>} \cup {<<[text |-> a]>> : a \in {<<"X">>, <<>>}}
           \cup {<<[text |-> a], [text |-> b]>> :
                   a \in {<<"X">>, <<>>}, b \in {<<"X">>, <<>>}}]

Malformed(generationsJson) ==
  \/ ~generationsJson.valid
  \/ \E i \in 1..Len(generationsJson.items) :
       generationsJson.items[i].text = <<>>

\* C10: when the record a lookup matched carries a payload that is not
\* valid JSON, or one with an element whose text is not a string, the
\* lookup fails with the decoding error: it returns neither null nor the
\* well-formed entries.
C10_MalformedPayloadFails ==
  /\ \A json \in Payloads :
       Malformed(json) =>
         LookupOutcome(<<Document("p1", [return_val |-> json])>>)
           = [kind |-> "decodeError", generations |-> <<>>]
  /\ (/\ returned.call.op = "lookup"
      /\ returned.results # <<>>
      /\ Malformed(returned.results[1].metadata.return_val))
     => returned.kind = "decodeError" /\ returned.generations = <<>>

\* The matched record was stored by an update with a generation that has no
\* string text, next to a well-formed one.
C10_Witness ==
  /\ returned.call.op = "lookup" /\ returned.kind = "decodeError"
  /\ Len(returned.results) = 1
  /\ Texts(returned.results[1].metadata.return_val.items) = <<<<"X">>, <<>>>>

\* C11: once a clear of a key has completed, the store cacheDict holds for
\* the key, the store a lookup started afterwards holds a retriever on, and
\* the store it searched are all stores created after that clear: the old
\* store instance, and with it every record it held, is never used again.
C11_FreshStoreAfterClear ==
  /\ \A k \in Keys : Present(k) => cacheDict[IndexName(k)] > hist[k].fence
  /\ \A t \in Tasks :
       (call[t].op = "lookup" /\ llmCache[t] # NoRetriever)
         => llmCache[t].vectorStore > clean[t].fence
  /\ (returned.call.op = "lookup" /\ returned.clean.store > 0)
       => returned.clean.store > returned.clean.fence

\* After a clear that dropped a record, a lookup found the record a later
\* update put into the new store.
C11_Witness ==
  /\ LookupDone /\ returned.kind = "generations"
  /\ returned.clean.fence >= 1
  /\ returned.clean.store > returned.clean.fence
  /\ hist[returned.call.llmKey].dropped >= 1

\* The sequential caller's last two calls: update(prompt, key, value) that
\* completed on a namespace without records, then lookup(prompt, key) that
\* returned; the caller is between calls.
UpdateOnEmptyThenLookup ==
  /\ SeqIdle /\ LookupDone
  /\ prev.call.op = "update" /\ prev.kind = "void"
  /\ prev.call.prompt = returned.call.prompt
  /\ prev.call.llmKey = returned.call.llmKey
  /\ Len(KeyStore(returned.call.llmKey)) = 1

\* C12: after update(p, key, []) on a namespace without records,
\* lookup(p, key) matches the record and returns null, as it does when no
\* record matches.
C12_EmptyPayloadIsMiss ==
  (UpdateOnEmptyThenLookup /\ prev.call.returnVal = <<>>)
    => /\ Len(returned.results) = 1
       /\ returned.kind = "null"
       /\ returned.generations = <<>>

C12_Witness ==
  /\ UpdateOnEmptyThenLookup /\ prev.call.returnVal = <<>>
  /\ returned.results # <<>>
  /\ returned.results[1].metadata.return_val.items = <<>>
  /\ returned.kind = "null"

\* C13: on a namespace without records, update(p, key, [g1..gn]) with
\* string texts followed by lookup(p, key) returns n entries whose texts
\* are g1.text..gn.text in that order and that carry no other field of the
\* stored generations (for n = 0 the lookup returns null, not an empty
\* sequence).
C13_LossyRoundTrip ==
  (/\ UpdateOnEmptyThenLookup
   /\ \A i \in 1..Len(prev.call.returnVal) : prev.call.returnVal[i].text # <<>>)
  => IF prev.call.returnVal = <<>>
     THEN returned.kind = "null"
     ELSE /\ returned.kind = "generations"
          /\ Len(returned.generations) = Len(prev.call.returnVal)
          /\ Texts(returned.generations) = Texts(prev.call.returnVal)
          /\ \A i \in 1..Len(returned.generations) :
               returned.generations[i].generationInfo = <<>>

\* Two generations, the first with a generationInfo, came back as two
\* texts in order and without it.
C13_Witness ==
  /\ UpdateOnEmptyThenLookup
  /\ Len(prev.call.returnVal) = 2
  /\ prev.call.returnVal[1].generationInfo # <<>>
  /\ prev.call.returnVal[1].text # prev.call.returnVal[2].text
  /\ returned.kind = "generations"
  /\ Texts(returned.generations) = Texts(prev.call.returnVal)
  /\ returned.generations[1].generationInfo = <<>>

\* The update call the sequential caller is in, before or after the step.
UpdateCall == IF call'[1].op = "update" THEN call'[1] ELSE call[1]

\* C14: every step of an update call of the sequential caller leaves the
\* map entries and the records of the other keys as they are and the
\* stores that exist as they are, except that the step that completes the
\* update appends the one record (content = prompt, the prompt's embedding,
\* metadata with key, prompt and serialized value) at the end of the key's
\* store, creates no store and leaves cacheDict as it is.
C14_UpdateFrame ==
  [][(call[1].op = "update" \/ call'[1].op = "update") =>
       \A key \in Keys :
         IF key # UpdateCall.llmKey
         THEN /\ Present(key)' = Present(key)
              /\ KeyStore(key)' = KeyStore(key)
         ELSE IF pc[1] = "embedDocuments" /\ returned'.kind = "void"
         THEN /\ Present(key)
              /\ cacheDict' = cacheDict
              /\ KeyStore(key)' = Append(KeyStore(key), RecordOf(UpdateCall))
              /\ Len(stores') = Len(stores)
              /\ \A s \in 1..Len(stores) :
                   s # cacheDict[IndexName(key)] => stores'[s] = stores[s]
         ELSE /\ KeyStore(key)' = KeyStore(key)
              /\ \A s \in 1..Len(stores) : stores'[s] = stores[s]
    ]_vars

\* An update has put its record after the one the key's store held, while
\* another key holds a record.
C14_Witness ==
  /\ SeqIdle /\ returned.call.op = "update" /\ returned.kind = "void"
  /\ LET mv == KeyStore(returned.call.llmKey)
     IN /\ Len(mv) = 2
        /\ mv[2] = RecordOf(returned.call)
        /\ mv[1] # mv[2]
  /\ \E k \in Keys \ {returned.call.llmKey} : Len(KeyStore(k)) = 1

\* C15: the step in which the embedding provider fails a lookup or an
\* update ends that call with the provider's error (nothing is returned,
\* the call is not tried again) and leaves every store and cacheDict as
\* they are.
C15_EmbeddingFailure ==
  [][\A t \in Tasks :
       (/\ pc[t] \in {"embedQuery", "embedDocuments"}
        /\ pc'[t] = "idle"
        /\ returned'.kind = "embedError")
       => /\ returned'.call = call[t]
          /\ returned'.call.op \in {"lookup", "update"}
          /\ returned'.generations = <<>> /\ returned'.results = <<>>
          /\ call'[t] = NoCall
          /\ stores' = stores
          /\ cacheDict' = cacheDict
    ]_vars

\* An update failed on a namespace that holds a record, which is still
\* the only one.
C15_Witness ==
  /\ returned.call.op = "update" /\ returned.kind = "embedError"
  /\ hist[returned.call.llmKey].started = 2
  /\ hist[returned.call.llmKey].done = 1
  /\ ~hist[returned.call.llmKey].cleared
  /\ Len(KeyStore(returned.call.llmKey)) = 1

\* C16: every pair a search returns is the document (content and metadata)
\* of one stored record that satisfies the predicate, with the similarity
\* of the query and that same record's embedding as its score.
C16_FilteredPairsConsistent ==
  DidSearch =>
    \A i \in 1..Len(searched.out) :
      \E j \in 1..Len(vs.memoryVectors) :
        LET mv == vs.memoryVectors[j]
        IN /\ ApplyFilter(searched.filter, Document(mv.content, mv.metadata))
           /\ searched.out[i][1] = Document(mv.content, mv.metadata)
           /\ searched.out[i][2] =
                Similarity(vs.similarity, searched.query, mv.embedding)

\* A filtered search whose best record stands, in the unfiltered sequence,
\* after a record that fails the predicate: the record at the position the
\* search found has another document and another score.
C16_Witness ==
  /\ DidSearch /\ searched.filter = "tagged" /\ searched.out # <<>>
  /\ ~ApplyFilter("tagged", Document(vs.memoryVectors[1].content,
                                     vs.memoryVectors[1].metadata))
  /\ LET other == vs.memoryVectors[searched.indices[1]]
     IN /\ Document(other.content, other.metadata) # searched.out[1][1]
        /\ Similarity(vs.similarity, searched.query, other.embedding)
             # searched.out[1][2]

\* A step of a clear call of the sequential caller: its start (on an absent
\* namespace the call is over with it) or its resumption; and its key.
InClear ==
  \/ call[1].op = "clear" \/ call'[1].op = "clear"
  \/ (calls' = calls + 1 /\ pc'[1] = "idle")

ClearKey ==
  IF call'[1].op = "clear" THEN call'[1].llmKey
  ELSE IF call[1].op = "clear" THEN call[1].llmKey
  ELSE returned'.call.llmKey

\* C17: every step of clear(key) leaves the map entries and the records of
\* the other keys, and every store but the key's, as they are; on an absent
\* namespace it changes neither cacheDict nor any store; when it is over
\* the key is absent; and a clear(key) made right after a clear(key) is
\* over at once and changes nothing.
C17_ClearFrame ==
  [][InClear =>
       \A key \in Keys :
         IF key # ClearKey
         THEN /\ Present(key)' = Present(key)
              /\ KeyStore(key)' = KeyStore(key)
         ELSE /\ Len(stores') = Len(stores)
              /\ \A s \in 1..Len(stores) :
                   (Present(key) => s # cacheDict[IndexName(key)])
                     => stores'[s] = stores[s]
              /\ ~Present(key) => (cacheDict' = cacheDict /\ stores' = stores)
              /\ pc'[1] = "idle" => ~Present(key)'
              /\ (/\ pc[1] = "idle"
                  /\ returned.call.op = "clear"
                  /\ returned.call.llmKey = key)
                 => /\ pc'[1] = "idle"
                    /\ cacheDict' = cacheDict
                    /\ stores' = stores
    ]_vars

\* Two clears of a key in a row, the first of which removed a namespace
\* that held a record.
C17_Witness ==
  /\ SeqIdle
  /\ prev.call.op = "clear" /\ returned.call.op = "clear"
  /\ prev.call.llmKey = returned.call.llmKey
  /\ hist[returned.call.llmKey].done = 1
  /\ ~Present(returned.call.llmKey)

\* C18: when the one update made on a key has completed, with any lookups
\* on the key running alongside and no clear, the update's record is in
\* the store cacheDict holds for the key.
C18_LookupKeepsUpdate ==
  \A k \in Keys :
    (hist[k].started = 1 /\ hist[k].done = 1 /\ ~hist[k].cleared)
    => /\ Present(k)
       /\ Len(KeyStore(k)) = 1

\* C19: no step of a lookup changes a record of a store that exists or the
\* stand-alone store; a direct search changes no store at all; a direct
\* search repeated with the same arguments before the store changes returns
\* the same pairs; and a lookup repeated right after it returned returns
\* the same documents and generations.
C19_ReadOnly ==
  [][/\ (call[1].op = "lookup" \/ call'[1].op = "lookup") =>
          /\ \A s \in 1..Len(stores) : stores'[s] = stores[s]
          /\ vs' = vs
     /\ (searched' # searched /\ searched' # NoSearch) =>
          /\ vs' = vs
          /\ stores' = stores
          /\ cacheDict' = cacheDict
     /\ (/\ searched # NoSearch /\ searched' # NoSearch
         /\ searched'.query = searched.query
         /\ searched'.k = searched.k
         /\ searched'.filter = searched.filter)
        => searched'.out = searched.out
     /\ (/\ LookupDone
         /\ pc[1] = "embedQuery" /\ pc'[1] = "idle"
         /\ returned'.kind # "embedError"
         /\ returned'.call = returned.call)
        => /\ returned'.kind = returned.kind
           /\ returned'.results = returned.results
           /\ returned'.generations = returned.generations
    ]_vars

\* A lookup has returned a record, and a direct search has ranked the
\* second record of the stand-alone store first: the store keeps its order.
C19_Witness ==
  /\ LookupDone /\ returned.kind = "generations"
  /\ Len(KeyStore(returned.call.llmKey)) = 2
  /\ DidSearch /\ searched.k = 2
  /\ Len(vs.memoryVectors) = 2
  /\ searched.indices = <<2, 1>>

\* C20: every store the cache has created for a namespace scores with the
\* similarity the cache was constructed with.
C20_StoresUseCacheSimilarity ==
  \A s \in 1..Len(stores) : stores[s].similarity = similarity

====
